---- MODULE Spec2Model ----
(***************************************************************************)
(* Solar system MCP server (solar-system_server_python/main.py).          *)
(*                                                                         *)
(* A TLA+ string is a sequence of characters: Len, Head, Tail, SubSeq and  *)
(* \o apply to it, and the str methods the code calls (strip, lower,       *)
(* isalnum, split, startswith, join, the substring test of `in`) are       *)
(* computed here character by character.                                   *)
(***************************************************************************)
EXTENDS Integers, Sequences, FiniteSets, TLC

(***************************************************************************)
(* Bounds of the model                                                     *)
(***************************************************************************)
\* how many non-alphanumeric characters a caller inserts into a name
MaxInsert == 1

\* how many verification calls are pending at once
MaxCalls == 3

(***************************************************************************)
(* Characters and the str methods the code uses                            *)
(***************************************************************************)
LowerAlpha == "abcdefghijklmnopqrstuvwxyz"

UpperAlpha == "ABCDEFGHIJKLMNOPQRSTUVWXYZ"

Digits == "0123456789"

\* the character of s at position i, as a one-character string
At(s, i) == SubSeq(s, i, i)

\* whether the character ch occurs in s
HasChar(s, ch) == \E i \in 1..Len(s) : At(s, i) = ch

Index(s, ch) == CHOOSE i \in 1..Len(s) : At(s, i) = ch

\* str.isspace for one character
IsSpace(ch) == ch \in { " ", "\t", "\n" }

\* str.isalnum for one character
IsAlnum(ch) == HasChar(LowerAlpha, ch) \/ HasChar(UpperAlpha, ch) \/ HasChar(Digits, ch)

LowerCh(ch) == IF HasChar(UpperAlpha, ch) THEN At(LowerAlpha, Index(UpperAlpha, ch)) ELSE ch

UpperCh(ch) == IF HasChar(LowerAlpha, ch) THEN At(UpperAlpha, Index(LowerAlpha, ch)) ELSE ch

RECURSIVE Lower(_)
\* str.lower
Lower(s) == IF s = "" THEN "" ELSE LowerCh(Head(s)) \o Lower(Tail(s))

RECURSIVE Upper(_)
\* str.upper
Upper(s) == IF s = "" THEN "" ELSE UpperCh(Head(s)) \o Upper(Tail(s))

\* str.strip(): leading and trailing whitespace removed
Strip(s) ==
    LET idx == { i \in 1..Len(s) : ~IsSpace(At(s, i)) }
    IN  IF idx = {} THEN ""
        ELSE LET lo == CHOOSE i \in idx : \A j \in idx : i <= j
                 hi == CHOOSE i \in idx : \A j \in idx : j <= i
             IN  SubSeq(s, lo, hi)

RECURSIVE Clean(_)
\* ''.join(ch for ch in s if ch.isalnum())
Clean(s) ==
    IF s = "" THEN ""
    ELSE (IF IsAlnum(Head(s)) THEN Head(s) ELSE "") \o Clean(Tail(s))

Range(f) == { f[i] : i \in DOMAIN f }

\* str.startswith
StartsWith(s, prefix) ==
    /\ Len(prefix) <= Len(s)
    /\ SubSeq(s, 1, Len(prefix)) = prefix

\* sub in s, for two strings
Contains(s, sub) ==
    \E i \in 1..(Len(s) + 1) :
        /\ i + Len(sub) - 1 <= Len(s)
        /\ SubSeq(s, i, i + Len(sub) - 1) = sub

RECURSIVE Join(_, _)
\* sep.join(items)
Join(items, sep) ==
    IF Len(items) = 0 THEN ""
    ELSE IF Len(items) = 1 THEN items[1]
    ELSE items[1] \o sep \o Join(Tail(items), sep)

(***************************************************************************)
(* Configuration and catalog                                               *)
(***************************************************************************)
None == "None"

AUTH_ENABLED == TRUE

AUTH_ISSUER_URL == "https://web-production-941fc.up.railway.app"

AUTH_AUDIENCE == "https://solar-system.example.com/mcp"

AUTH_REQUIRED_SCOPE == "solar:read"

MIME_TYPE == "text/html+skybridge"

PLANETS ==
    << "Mercury", "Venus", "Earth", "Mars", "Jupiter", "Saturn", "Uranus", "Neptune" >>

\* the alias table, in source order
PLANET_ALIASES ==
    << [key |-> "terra",    planet |-> "Earth"],
       [key |-> "gaia",     planet |-> "Earth"],
       [key |-> "soliii",   planet |-> "Earth"],
       [key |-> "tellus",   planet |-> "Earth"],
       [key |-> "ares",     planet |-> "Mars"],
       [key |-> "jove",     planet |-> "Jupiter"],
       [key |-> "zeus",     planet |-> "Jupiter"],
       [key |-> "cronus",   planet |-> "Saturn"],
       [key |-> "ouranos",  planet |-> "Uranus"],
       [key |-> "poseidon", planet |-> "Neptune"] >>

\* (the dash in Jupiter's text is an em dash in the source)
PLANET_DESCRIPTIONS ==
    << [key |-> "Mercury", text |-> "Mercury is the smallest planet in the Solar System and the closest to the Sun. It has a rocky, cratered surface and extreme temperature swings."],
       [key |-> "Venus",   text |-> "Venus, similar in size to Earth, is cloaked in thick clouds of sulfuric acid with surface temperatures hot enough to melt lead."],
       [key |-> "Earth",   text |-> "Earth is the only known planet to support life, with liquid water covering most of its surface and a protective atmosphere."],
       [key |-> "Mars",    text |-> "Mars, the Red Planet, shows evidence of ancient rivers and volcanoes and is a prime target in the search for past life."],
       [key |-> "Jupiter", text |-> "Jupiter is the largest planet, a gas giant with a Great Red Spot-an enormous storm raging for centuries."],
       [key |-> "Saturn",  text |-> "Saturn is famous for its stunning ring system composed of billions of ice and rock particles orbiting the planet."],
       [key |-> "Uranus",  text |-> "Uranus is an ice giant rotating on its side, giving rise to extreme seasonal variations during its long orbit."],
       [key |-> "Neptune", text |-> "Neptune, the farthest known giant, is a deep-blue world with supersonic winds and a faint ring system."] >>

DEFAULT_PLANET == "Earth"

\* PLANET_ALIASES.get(k)
AliasGet(k) ==
    IF \E i \in DOMAIN PLANET_ALIASES : PLANET_ALIASES[i].key = k
    THEN PLANET_ALIASES[CHOOSE i \in DOMAIN PLANET_ALIASES :
                            PLANET_ALIASES[i].key = k].planet
    ELSE None

\* PLANET_DESCRIPTIONS.get(planet, "")
DescriptionGet(planet) ==
    IF \E i \in DOMAIN PLANET_DESCRIPTIONS : PLANET_DESCRIPTIONS[i].key = planet
    THEN PLANET_DESCRIPTIONS[CHOOSE i \in DOMAIN PLANET_DESCRIPTIONS :
                                 PLANET_DESCRIPTIONS[i].key = planet].text
    ELSE ""

\* the widget descriptor; html is the asset text read once at import
WIDGET ==
    [ identifier    |-> "solar-system",
      title         |-> "Explore the Solar System",
      template_uri  |-> "ui://widget/solar-system_v2.html",
      invoking      |-> "Charting the solar system",
      invoked       |-> "Solar system ready",
      html          |-> "<div id=solar-system-root></div>",
      response_text |-> "Solar system ready" ]

(***************************************************************************)
(* _normalize_planet                                                       *)
(***************************************************************************)
\* a variant of NameKey that forgets to lower-case the name
NameKeyNoLower(name) == Strip(name)

\* key = name.strip().lower()
NameKey(name) == Lower(Strip(name))

\* a variant of CleanKey that leaves the punctuation in
CleanKeyKeepsAll(key) == key

\* clean = ''.join(ch for ch in key if ch.isalnum())
CleanKey(key) == Clean(key)

\* planet_key = ''.join(ch for ch in planet.lower() if ch.isalnum())
PlanetKey(planet) == Clean(Lower(planet))

\* first loop: clean == planet_key or key == planet.lower()
ExactHits(key, clean) ==
    { i \in DOMAIN PLANETS :
        clean = PlanetKey(PLANETS[i]) \/ key = Lower(PLANETS[i]) }

\* second loop: planet_key.startswith(clean)
PrefixHits(clean) ==
    { i \in DOMAIN PLANETS : StartsWith(PlanetKey(PLANETS[i]), clean) }

\* the first of a non-empty set of list positions
First(hits) == CHOOSE i \in hits : \A j \in hits : i <= j

normalize_planet(name) ==
    IF name = "" THEN DEFAULT_PLANET
    ELSE LET key == NameKey(name) IN
    IF key = "" THEN DEFAULT_PLANET
    ELSE LET clean == CleanKey(key) IN
    IF ExactHits(key, clean) # {} THEN PLANETS[First(ExactHits(key, clean))]
    ELSE IF AliasGet(clean) # None THEN AliasGet(clean)
    ELSE IF PrefixHits(clean) # {} THEN PLANETS[First(PrefixHits(clean))]
    ELSE None

(***************************************************************************)
(* SolarInput and _call_tool_request                                       *)
(***************************************************************************)
\* JSON values of an argument mapping, tagged with their type
Str(s) == [t |-> "str", v |-> s]

Bool(b) == [t |-> "bool", v |-> b]

Arr(items) == [t |-> "list", v |-> items]

Num(n) == [t |-> "int", v |-> n]

\* a JSON object, by its keys
Obj(keys) == [t |-> "dict", v |-> keys]

\* the keys SolarInput accepts: each alias, and (populate_by_name) each field name
PlanetKeys == << "planetName", "planet_name" >>

OrbitKeys == << "autoOrbit", "auto_orbit" >>

\* the value given for a field: its alias first, then its name; absent when neither
Given(arguments, keys) ==
    IF keys[1] \in DOMAIN arguments THEN << arguments[keys[1]] >>
    ELSE IF keys[2] \in DOMAIN arguments THEN << arguments[keys[2]] >>
    ELSE << >>

\* the errors SolarInput.model_validate(arguments) reports (extra="forbid")
ValidationErrors(arguments) ==
    LET p == Given(arguments, PlanetKeys)
        o == Given(arguments, OrbitKeys)
    IN  (IF p # << >> /\ p[1].t # "str" THEN << "planetName: string_type" >> ELSE << >>)
        \o (IF o # << >> /\ o[1].t # "bool" THEN << "autoOrbit: bool_type" >> ELSE << >>)
        \o (IF DOMAIN arguments \subseteq (Range(PlanetKeys) \cup Range(OrbitKeys))
            THEN << >> ELSE << "extra_forbidden" >>)

\* the SolarInput model_validate builds, defaults filled in
model_validate(arguments) ==
    LET p == Given(arguments, PlanetKeys)
        o == Given(arguments, OrbitKeys)
    IN  [ planet_name |-> IF p = << >> THEN DEFAULT_PLANET ELSE p[1].v,
          auto_orbit  |-> IF o = << >> THEN TRUE ELSE o[1].v ]

\* _embedded_widget_resource(WIDGET)
embedded_widget_resource ==
    [ type     |-> "resource",
      uri      |-> WIDGET.template_uri,
      mimeType |-> MIME_TYPE,
      text     |-> WIDGET.html,
      title    |-> WIDGET.title ]

\* the functions the handler has called, in order
ToolTrace(arguments) ==
    << "model_validate" >>
    \o (IF ValidationErrors(arguments) = << >> THEN << "_normalize_planet" >> ELSE << >>)

call_tool_request(arguments) ==
    IF ValidationErrors(arguments) # << >>
    THEN [ kind    |-> "CallToolResult",
           isError |-> TRUE,
           text    |-> "Input validation error: "
                         \o Join(ValidationErrors(arguments), ", ") ]
    ELSE LET payload == model_validate(arguments)
             planet  == normalize_planet(payload.planet_name)
         IN  IF planet = None
             THEN [ kind    |-> "CallToolResult",
                    isError |-> TRUE,
                    text    |-> "Unknown planet. Provide one of: "
                                  \o Join(PLANETS, ", ") ]
             ELSE [ kind    |-> "CallToolResult",
                    isError |-> FALSE,
                    text    |-> "Centered the solar system view on " \o planet \o ".",
                    structuredContent |->
                        [ planet_name        |-> planet,
                          planet_description |-> DescriptionGet(planet),
                          autoOrbit          |-> payload.auto_orbit ],
                    meta |->
                        [ widget         |-> embedded_widget_resource,
                          outputTemplate |-> WIDGET.template_uri,
                          invoking       |-> WIDGET.invoking,
                          invoked        |-> WIDGET.invoked ] ]

(***************************************************************************)
(* Bearer tokens                                                           *)
(***************************************************************************)
\* a claim the payload does not carry
Absent == [t |-> "absent", v |-> ""]

\* the key identifiers tokens name, and those the JWKS endpoint publishes
Kids == { "kid-1", "kid-2" }

RemoteKeys == { "kid-1" }

\* what the code reads of a bearer token; scope, permissions and azp are
\* tagged JSON values, or Absent
ScopeClaims ==
    { Absent, Str(""), Str("solar:read"), Str("write\tsolar:read "),
      Str("xsolar:readx"), Arr(<< "solar:read" >>) }

PermissionClaims ==
    { Absent, Arr(<< "solar:read" >>), Arr(<< "write" >>),
      Str("solar:read"), Str("xsolar:readx write"), Num(7),
      Obj(<< "solar:read" >>) }

AzpClaims == { Absent, Str("client-1"), Num(7) }

Tokens ==
    [ wellFormed  : BOOLEAN,
      kid         : Kids,
      alg         : { "RS256", "HS256" },
      sigOk       : BOOLEAN,
      iatOk       : BOOLEAN,
      expired     : BOOLEAN,
      iss         : { AUTH_ISSUER_URL, "https://auth.com" },
      aud         : { AUTH_AUDIENCE, "https://other.example.com" },
      scope       : ScopeClaims,
      permissions : PermissionClaims,
      azp         : AzpClaims ]

(***************************************************************************)
(* Exceptions                                                              *)
(***************************************************************************)
\* the classes an exception is an instance of (PyJWT, pydantic, builtins)
Mro(exc) ==
    CASE exc = "ExpiredSignatureError" ->
            { exc, "InvalidTokenError", "PyJWTError", "Exception" }
      [] exc \in { "DecodeError", "InvalidAlgorithmError", "ImmatureSignatureError",
                   "InvalidIssuerError", "InvalidAudienceError" } ->
            { exc, "InvalidTokenError", "PyJWTError", "Exception" }
      [] exc = "InvalidSignatureError" ->
            { exc, "DecodeError", "InvalidTokenError", "PyJWTError", "Exception" }
      [] exc = "PyJWKClientError" ->
            { exc, "PyJWTError", "Exception" }
      [] exc = "PyJWKClientConnectionError" ->
            { exc, "PyJWKClientError", "PyJWTError", "Exception" }
      [] exc = "ValidationError" ->
            { exc, "ValueError", "Exception" }
      [] OTHER ->
            { exc, "Exception" }

(***************************************************************************)
(* Signing keys: self.jwks_client = PyJWKClient(self.jwks_url)             *)
(***************************************************************************)
\* the client's key-set cache is empty, or holds the key set last fetched
NoKeySet == { "no key set" }

\* one JWKS request: the key set the cache holds afterwards
Fetched(net) == IF net = "ok" THEN RemoteKeys ELSE NoKeySet

\* get_signing_key_from_jwt(token): the key set is read from the cache, or
\* fetched when the cache is empty; a key identifier it lacks makes the
\* client fetch the key set again.  net1 and net2 are the outcomes of the
\* first and second JWKS request, should they be made.
get_signing_key_from_jwt(token, cache, net1, net2) ==
    IF ~token.wellFormed
    THEN [ raised |-> "DecodeError", cache |-> cache, fetches |-> 0, refreshes |-> 0 ]
    ELSE
    LET cold  == cache = NoKeySet
        first == IF cold THEN Fetched(net1) ELSE cache
        n1    == IF cold THEN 1 ELSE 0
    IN  IF first = NoKeySet
        THEN [ raised |-> "PyJWKClientConnectionError", cache |-> first,
               fetches |-> n1, refreshes |-> 0 ]
        ELSE IF token.kid \in first
        THEN [ raised |-> "", cache |-> first, fetches |-> n1, refreshes |-> 0 ]
        ELSE
        LET second == Fetched(IF cold THEN net2 ELSE net1)
        IN  IF second = NoKeySet
            THEN [ raised |-> "PyJWKClientConnectionError", cache |-> second,
                   fetches |-> n1 + 1, refreshes |-> 1 ]
            ELSE IF token.kid \in second
            THEN [ raised |-> "", cache |-> second,
                   fetches |-> n1 + 1, refreshes |-> 1 ]
            ELSE [ raised |-> "PyJWKClientError", cache |-> second,
                   fetches |-> n1 + 1, refreshes |-> 1 ]

(***************************************************************************)
(* SolarSystemTokenVerifier.verify_token                                   *)
(***************************************************************************)
\* jwt.decode(token, signing_key.key, algorithms=["RS256"], issuer=...,
\* audience=..., options={verify_signature, verify_exp, verify_iat,
\* verify_aud, verify_iss}): the exception raised, "" when none is
jwt_decode(token) ==
    IF token.alg # "RS256" THEN "InvalidAlgorithmError"
    ELSE IF ~token.sigOk THEN "InvalidSignatureError"
    ELSE IF ~token.iatOk THEN "ImmatureSignatureError"
    ELSE IF token.expired THEN "ExpiredSignatureError"
    ELSE IF token.iss # AUTH_ISSUER_URL THEN "InvalidIssuerError"
    ELSE IF token.aud # AUTH_AUDIENCE THEN "InvalidAudienceError"
    ELSE ""

RECURSIVE SplitFrom(_, _)
SplitFrom(s, word) ==
    IF s = "" THEN (IF word = "" THEN << >> ELSE << word >>)
    ELSE IF IsSpace(Head(s))
         THEN (IF word = "" THEN << >> ELSE << word >>) \o SplitFrom(Tail(s), "")
         ELSE SplitFrom(Tail(s), word \o Head(s))

\* str.split(): the words between runs of whitespace
Split(s) == SplitFrom(s, "")

\* a variant of GrantedScopes that prefers a list-valued permissions claim
GrantedScopesPermissionsFirst(token) ==
    IF token.permissions.t = "list" THEN token.permissions
    ELSE IF token.scope.t = "str" THEN Arr(Split(token.scope.v))
    ELSE Arr(<< >>)

\* scopes = payload.get("scope", "").split()
\*              if isinstance(payload.get("scope"), str)
\*              else payload.get("permissions", [])
GrantedScopes(token) ==
    IF token.scope.t = "str" THEN Arr(Split(token.scope.v))
    ELSE IF token.permissions.t = "absent" THEN Arr(<< >>)
    ELSE token.permissions

\* self.required_scope not in scopes: "absent", "present", or the exception
\* the test raises on a value that is no container
ScopeTest(scopes) ==
    CASE scopes.t \in { "list", "dict" } ->
            IF \E i \in DOMAIN scopes.v : scopes.v[i] = AUTH_REQUIRED_SCOPE
            THEN "present" ELSE "absent"
      [] scopes.t = "str" ->
            IF Contains(scopes.v, AUTH_REQUIRED_SCOPE) THEN "present" ELSE "absent"
      [] OTHER -> "TypeError"

\* client_id = payload.get("azp", payload.get("client_id", ""))
ClientId(token) == IF token.azp.t = "absent" THEN Str("") ELSE token.azp

\* AccessToken(token=..., client_id=..., scopes=scopes, ...): the model takes
\* a str client_id and a list of str scopes, anything else fails validation
AccessToken(token, scopes) ==
    IF scopes.t = "list" /\ ClientId(token).t = "str"
    THEN [ kind |-> "AccessToken", client_id |-> ClientId(token).v, scopes |-> scopes.v ]
    ELSE [ kind |-> "raised", exc |-> "ValidationError" ]

NoAccessToken == [ kind |-> "None" ]

Raised(exc) == [ kind |-> "raised", exc |-> exc ]

\* the body of the try block, given how key resolution ended
TryBlock(token, key) ==
    IF key.raised # "" THEN Raised(key.raised)
    ELSE IF jwt_decode(token) # "" THEN Raised(jwt_decode(token))
    ELSE LET scopes == GrantedScopes(token)
             test   == ScopeTest(scopes)
         IN  IF test = "TypeError" THEN Raised("TypeError")
             ELSE IF test = "absent" THEN NoAccessToken
             ELSE AccessToken(token, scopes)

\* a variant of ExceptClauses without the catch-all clause
ExceptClausesJwtOnly == << "ExpiredSignatureError", "InvalidTokenError" >>

\* the except clauses, in order
ExceptClauses == << "ExpiredSignatureError", "InvalidTokenError", "Exception" >>

\* what the call hands its caller: an exception no clause names propagates
Handle(r) ==
    IF r.kind # "raised" THEN r
    ELSE IF \E i \in DOMAIN ExceptClauses : ExceptClauses[i] \in Mro(r.exc)
         THEN NoAccessToken
         ELSE r

\* verify_token(token): the result, the key-set cache afterwards and the
\* JWKS requests made
verify_token(token, cache, net1, net2) ==
    LET key == get_signing_key_from_jwt(token, cache, net1, net2)
    IN  [ result    |-> Handle(TryBlock(token, key)),
          tried     |-> TryBlock(token, key),
          cache     |-> key.cache,
          fetches   |-> key.fetches,
          refreshes |-> key.refreshes ]

NetOutcomes == { "ok", "fail" }

(***************************************************************************)
(* _handle_read_resource                                                   *)
(***************************************************************************)
\* _tool_meta(WIDGET)
tool_meta ==
    [ outputTemplate |-> WIDGET.template_uri,
      invoking       |-> WIDGET.invoking,
      invoked        |-> WIDGET.invoked,
      readOnlyHint   |-> TRUE ]

\* a variant of UriMatches that accepts any URI the template URI begins
UriMatchesPrefix(resource_uri) == StartsWith(resource_uri, WIDGET.template_uri)

\* resource_uri != WIDGET.template_uri, negated
UriMatches(resource_uri) == resource_uri = WIDGET.template_uri

handle_read_resource(resource_uri) ==
    IF ~UriMatches(resource_uri)
    THEN [ kind     |-> "ReadResourceResult",
           contents |-> << >>,
           meta     |-> [ error |-> "Unknown resource: " \o resource_uri ] ]
    ELSE [ kind     |-> "ReadResourceResult",
           contents |-> << [ uri      |-> WIDGET.template_uri,
                             mimeType |-> MIME_TYPE,
                             text     |-> WIDGET.html,
                             meta     |-> tool_meta ] >> ]

(***************************************************************************)
(* The app: mcp = FastMCP(token_verifier=..., auth=...), both handlers     *)
(* registered on mcp._mcp_server, app = mcp.streamable_http_app()          *)
(***************************************************************************)
\* a variant of Guarded in which only tool calls sit behind the token verifier
GuardedToolsOnly(kind) == AUTH_ENABLED /\ kind = "tools/call"

\* the request kinds served through app sit behind its token verifier:
\* CallToolRequest and ReadResourceRequest are handlers of the one server
Guarded(kind) == AUTH_ENABLED

\* auth=AuthSettings(required_scopes=[AUTH_REQUIRED_SCOPE])
RequiredScopes == { AUTH_REQUIRED_SCOPE }

\* a variant of GateVerdict that only asks for some bearer token
GateVerdictAnyBearer(bearer, verified) == IF bearer = << >> THEN "401" ELSE "pass"

\* what the app does with a request, given the bearer token it carries
\* (<< >> when none) and what verify_token returned for it
GateVerdict(bearer, verified) ==
    IF bearer = << >> THEN "401"
    ELSE IF verified.kind # "AccessToken" THEN "401"
    ELSE IF ~(RequiredScopes \subseteq Range(verified.scopes)) THEN "403"
    ELSE "pass"

HTTPError(status) == [ kind |-> "HTTPError", status |-> status ]

(***************************************************************************)
(* State                                                                   *)
(***************************************************************************)
VARIABLES
    name,       \* the planetName a caller sends
    origin,     \* that text before non-alphanumeric characters were inserted
    inserted,   \* how many characters were inserted
    phase,      \* "input" until the tool call was handled, then "done"
    planet,     \* the handler's local: what _normalize_planet returned
    reply,      \* the CallToolResult of that tool call
    token,      \* the token given to verify_token
    outcome,    \* what that verify_token call did
    vphase,     \* "call" until verify_token has returned, then "returned"
    jwks,       \* the key-set cache of self.jwks_client
    calls,      \* the verification calls pending at once, and their results
    refreshes,  \* per key identifier, the JWKS refreshes made for it
    req,        \* the request the app is serving
    pc,         \* "idle", "received", "authorized" or "done"
    auth,       \* what verify_token returned for the request
    trace,      \* the functions called for the request, in order
    response    \* what the caller gets

resolveVars == << name, origin, inserted, phase, planet, reply >>

verifyVars == << token, outcome, vphase >>

keyVars == << calls, refreshes >>

appVars == << req, pc, auth, trace, response >>

vars == << name, origin, inserted, phase, planet, reply, token, outcome, vphase,
           jwks, calls, refreshes, req, pc, auth, trace, response >>

NoReply == [ kind |-> "none" ]

GoodToken ==
    [ wellFormed  |-> TRUE,
      kid         |-> "kid-1",
      alg         |-> "RS256",
      sigOk       |-> TRUE,
      iatOk       |-> TRUE,
      expired     |-> FALSE,
      iss         |-> AUTH_ISSUER_URL,
      aud         |-> AUTH_AUDIENCE,
      scope       |-> Str("solar:read"),
      permissions |-> Absent,
      azp         |-> Str("client-1") ]

\* the variables a specification does not use keep these values
ResolveIdle ==
    /\ name = ""
    /\ origin = ""
    /\ inserted = 0
    /\ phase = "idle"
    /\ planet = None
    /\ reply = NoReply

VerifyIdle ==
    /\ token = GoodToken
    /\ outcome = NoReply
    /\ vphase = "idle"

KeysIdle ==
    /\ calls = << >>
    /\ refreshes = [ k \in Kids |-> 0 ]

AppIdle ==
    /\ req = NoReply
    /\ pc = "off"
    /\ auth = NoReply
    /\ trace = << >>
    /\ response = NoReply

(***************************************************************************)
(* Tool calls with a planet name                                           *)
(***************************************************************************)
Canonical == Range(PLANETS)

\* every upper/lower-case variant of a text
RECURSIVE CaseVariants(_)
CaseVariants(s) ==
    IF s = "" THEN { "" }
    ELSE { c \o rest : c \in { LowerCh(Head(s)), UpperCh(Head(s)) },
                       rest \in CaseVariants(Tail(s)) }

AliasInputs == UNION { CaseVariants(PLANET_ALIASES[i].key) : i \in DOMAIN PLANET_ALIASES }

OtherInputs == { "", "   ", "Pluto", "nep", "m", "Ma", "earths", "42" }

\* the characters str.isalnum rejects that a caller inserts
NonAlnum == { "#", "-", " " }

\* the texts non-alphanumeric characters are inserted into
Punctuable == Canonical \cup { Upper(p) : p \in Canonical } \cup OtherInputs

ResolverInputs == Punctuable \cup { Lower(p) : p \in Canonical } \cup AliasInputs

InsertAt(s, pos, ch) == SubSeq(s, 1, pos - 1) \o ch \o SubSeq(s, pos, Len(s))

InitResolve ==
    /\ name \in ResolverInputs
    /\ origin = name
    /\ inserted = 0
    /\ phase = "input"
    /\ planet = None
    /\ reply = NoReply
    /\ jwks = NoKeySet
    /\ VerifyIdle /\ KeysIdle /\ AppIdle

\* a caller writes the name with one more non-alphanumeric character in it
Punctuate ==
    /\ phase = "input"
    /\ inserted < MaxInsert
    /\ origin \in Punctuable
    /\ \E pos \in 1..(Len(name) + 1), ch \in NonAlnum :
          name' = InsertAt(name, pos, ch)
    /\ inserted' = inserted + 1
    /\ UNCHANGED << origin, phase, planet, reply >>
    /\ UNCHANGED << verifyVars, jwks, keyVars, appVars >>

\* _call_tool_request with arguments {"planetName": name}
CallToolNamed ==
    /\ phase = "input"
    /\ planet' = normalize_planet(name)
    /\ reply' = call_tool_request([ k \in { "planetName" } |-> Str(name) ])
    /\ phase' = "done"
    /\ UNCHANGED << name, origin, inserted >>
    /\ UNCHANGED << verifyVars, jwks, keyVars, appVars >>

NextResolve == Punctuate \/ CallToolNamed

SpecResolve == InitResolve /\ [][NextResolve]_vars

(***************************************************************************)
(* One verify_token call, for every token                                  *)
(***************************************************************************)
InitVerify ==
    /\ token \in Tokens
    /\ jwks \in { NoKeySet, RemoteKeys }
    /\ outcome = NoReply
    /\ vphase = "call"
    /\ ResolveIdle /\ KeysIdle /\ AppIdle

\* await self.token_verifier.verify_token(token)
VerifyToken ==
    /\ vphase = "call"
    /\ \E net1, net2 \in NetOutcomes :
          LET v == verify_token(token, jwks, net1, net2)
          IN  /\ outcome' = [ result |-> v.result, tried |-> v.tried ]
              /\ jwks' = v.cache
    /\ vphase' = "returned"
    /\ UNCHANGED << token, resolveVars, keyVars, appVars >>

NextVerify == VerifyToken

SpecVerify == InitVerify /\ [][NextVerify]_vars

(***************************************************************************)
(* Verification calls pending at once                                      *)
(***************************************************************************)
\* verify_token has no await in it: the event loop runs one call to its
\* return, the blocking JWKS requests included, before it starts another
KeyTokens == { [ GoodToken EXCEPT !.kid = k ] : k \in Kids }

InitKeys ==
    /\ calls \in [ 1..MaxCalls -> [ token : KeyTokens, state : { "pending" },
                                    result : { "none" } ] ]
    /\ refreshes = [ k \in Kids |-> 0 ]
    /\ jwks = NoKeySet
    /\ ResolveIdle /\ VerifyIdle /\ AppIdle

VerifyPending(c) ==
    /\ calls[c].state = "pending"
    /\ \E net1, net2 \in NetOutcomes :
          LET v   == verify_token(calls[c].token, jwks, net1, net2)
              kid == calls[c].token.kid
          IN  /\ calls' = [ calls EXCEPT ![c].state = "returned",
                                         ![c].result = v.result.kind ]
              /\ jwks' = v.cache
              /\ refreshes' = [ refreshes EXCEPT ![kid] = @ + v.refreshes ]
    /\ UNCHANGED << resolveVars, verifyVars, appVars >>

NextKeys == \E c \in 1..MaxCalls : VerifyPending(c)

SpecKeys == InitKeys /\ [][NextKeys]_vars

(***************************************************************************)
(* Requests through the app                                                *)
(***************************************************************************)
\* bearer tokens of the requests the model sends: a good one, and one per defect
GateTokens ==
    { GoodToken,
      [ GoodToken EXCEPT !.expired = TRUE ],
      [ GoodToken EXCEPT !.aud = "https://other.example.com" ],
      [ GoodToken EXCEPT !.iss = "https://auth.com" ],
      [ GoodToken EXCEPT !.sigOk = FALSE ],
      [ GoodToken EXCEPT !.scope = Str("xsolar:readx") ],
      [ GoodToken EXCEPT !.scope = Absent, !.permissions = Arr(<< "solar:read" >>) ],
      [ GoodToken EXCEPT !.kid = "kid-2" ],
      [ GoodToken EXCEPT !.wellFormed = FALSE ] }

Bearers == { << >> } \cup { << tk >> : tk \in GateTokens }

EmptyMap == [ k \in {} |-> Absent ]

PlanetArgs ==
    { EmptyMap,
      "planetName" :> Str(""),
      "planetName" :> Str("zeus"),
      "planetName" :> Str("Pluto"),
      "planetName" :> Str(" MARS "),
      "planet_name" :> Str("nep"),
      "planetName" :> Num(4) }

OrbitArgs ==
    { EmptyMap, "autoOrbit" :> Bool(TRUE), "autoOrbit" :> Bool(FALSE),
      "autoOrbit" :> Arr(<< >>) }

ExtraArgs == { EmptyMap, "zoom" :> Num(2) }

ToolArguments == { p @@ o @@ e : p \in PlanetArgs, o \in OrbitArgs, e \in ExtraArgs }

ResourceUris ==
    { WIDGET.template_uri,
      "ui://widget/solar-system.html",
      "ui://widget/solar-system_v2.html?v=2",
      "ui://widget/Solar-System_v2.html",
      "ui://widget/solar-system_v2" }

Requests ==
    { [ kind |-> "tools/call", bearer |-> b, arguments |-> a, uri |-> "" ] :
        b \in Bearers, a \in ToolArguments }
    \cup
    { [ kind |-> "resources/read", bearer |-> b, arguments |-> EmptyMap, uri |-> u ] :
        b \in Bearers, u \in ResourceUris }

Init ==
    /\ req = NoReply
    /\ pc = "idle"
    /\ auth = NoReply
    /\ trace = << >>
    /\ response = NoReply
    /\ jwks = NoKeySet
    /\ ResolveIdle /\ VerifyIdle /\ KeysIdle

\* a request arrives; the server is stateless between requests
Receive ==
    /\ pc \in { "idle", "done" }
    /\ req' \in Requests
    /\ pc' = "received"
    /\ auth' = NoReply
    /\ trace' = << >>
    /\ response' = NoReply
    /\ UNCHANGED << jwks, resolveVars, verifyVars, keyVars >>

\* the request passes the app's token gate on its way to the handler
Authenticate ==
    /\ pc = "received"
    /\ \E net1, net2 \in NetOutcomes :
          LET checked == Guarded(req.kind) /\ req.bearer # << >>
              v == IF checked
                   THEN verify_token(req.bearer[1], jwks, net1, net2)
                   ELSE [ result |-> NoAccessToken, cache |-> jwks ]
              verdict == IF Guarded(req.kind)
                         THEN GateVerdict(req.bearer, v.result)
                         ELSE "pass"
          IN  /\ auth' = v.result
              /\ jwks' = v.cache
              /\ trace' = IF checked THEN << "verify_token" >> ELSE << >>
              /\ IF verdict = "pass"
                 THEN pc' = "authorized" /\ response' = response
                 ELSE pc' = "done" /\ response' = HTTPError(verdict)
    /\ UNCHANGED << req, resolveVars, verifyVars, keyVars >>

\* request_handlers[types.CallToolRequest] = _call_tool_request
HandleCallTool ==
    /\ pc = "authorized"
    /\ req.kind = "tools/call"
    /\ response' = call_tool_request(req.arguments)
    /\ trace' = trace \o ToolTrace(req.arguments)
    /\ pc' = "done"
    /\ UNCHANGED << req, auth, jwks, resolveVars, verifyVars, keyVars >>

\* request_handlers[types.ReadResourceRequest] = _handle_read_resource
HandleReadResource ==
    /\ pc = "authorized"
    /\ req.kind = "resources/read"
    /\ response' = handle_read_resource(req.uri)
    /\ trace' = trace \o << "_handle_read_resource" >>
    /\ pc' = "done"
    /\ UNCHANGED << req, auth, jwks, resolveVars, verifyVars, keyVars >>

Next == Receive \/ Authenticate \/ HandleCallTool \/ HandleReadResource

Spec == Init /\ [][Next]_vars

(***************************************************************************)
(* Properties                                                              *)
(***************************************************************************)
\* the defects of a bearer token that the verifier is to reject
Defective(tk) ==
    \/ ~tk.wellFormed
    \/ tk.kid \notin RemoteKeys
    \/ tk.alg # "RS256"
    \/ ~tk.sigOk
    \/ ~tk.iatOk
    \/ tk.expired
    \/ tk.iss # AUTH_ISSUER_URL
    \/ tk.aud # AUTH_AUDIENCE
    \/ tk.scope.t = "str" /\ ~(\E i \in DOMAIN Split(tk.scope.v) :
                                  Split(tk.scope.v)[i] = AUTH_REQUIRED_SCOPE)

\* C1: with authorization enabled, a tool call whose bearer token the verifier
\* rejects ends in an error outcome with neither SolarInput.model_validate nor
\* _normalize_planet called for it; a tool call whose token is accepted goes
\* on to model_validate and, only after it, to _normalize_planet.
C1_RejectedBeforeValidation ==
    (AUTH_ENABLED /\ req.kind = "tools/call" /\ pc \in { "authorized", "done" }) =>
        /\ (auth.kind # "AccessToken" \/ req.bearer = << >> \/ Defective(req.bearer[1]))
            => /\ pc = "done"
               /\ response.kind = "HTTPError"
               /\ "model_validate" \notin Range(trace)
               /\ "_normalize_planet" \notin Range(trace)
        /\ (auth.kind = "AccessToken" /\ pc = "done")
            => /\ response.kind = "CallToolResult"
               /\ Len(trace) \in { 2, 3 }
               /\ trace[1] = "verify_token"
               /\ trace[2] = "model_validate"
               /\ Len(trace) = 3 => trace[3] = "_normalize_planet"

C1_Witness ==
    /\ pc = "done"
    /\ req.kind = "tools/call"
    /\ req.bearer = << [ GoodToken EXCEPT !.expired = TRUE ] >>
    /\ "planetName" \in DOMAIN req.arguments
    /\ response.kind = "HTTPError"
    /\ trace = << "verify_token" >>

\* the granted-scope set as the claim C2 defines it: the words of a string
\* scope claim; else the items of a list permissions claim; else nothing
IsWordOf(w, s) ==
    \E i \in 1..Len(s), j \in 1..Len(s) :
        /\ i <= j
        /\ SubSeq(s, i, j) = w
        /\ \A k \in i..j : ~IsSpace(At(s, k))
        /\ i = 1 \/ IsSpace(At(s, i - 1))
        /\ j = Len(s) \/ IsSpace(At(s, j + 1))

RequiredScopeGranted(tk) ==
    IF tk.scope.t = "str" THEN IsWordOf(AUTH_REQUIRED_SCOPE, tk.scope.v)
    ELSE /\ tk.permissions.t = "list"
         /\ \E i \in DOMAIN tk.permissions.v : tk.permissions.v[i] = AUTH_REQUIRED_SCOPE

\* C2: verify_token returns an AccessToken only if the required scope is in
\* the granted-scope set: the whitespace-split scope claim whenever that claim
\* is a string, the permissions list only when it is not; every other token,
\* a string-valued permissions claim that contains the scope included, is
\* rejected.
C2_AcceptedOnlyWithScope ==
    vphase = "returned" =>
        (outcome.result.kind = "AccessToken" => RequiredScopeGranted(token))

C2_Witness ==
    /\ vphase = "returned"
    /\ token.scope = Arr(<< "solar:read" >>)
    /\ token.permissions = Arr(<< "solar:read" >>)
    /\ outcome.result.kind = "AccessToken"

\* C3: verify_token never raises: whatever fails in it (key fetch, malformed
\* token, signature, expiry, audience, issuer, ill-typed claims, building the
\* AccessToken), the call returns an AccessToken or None, and None on failure.
C3_NeverRaises ==
    vphase = "returned" =>
        /\ outcome.result.kind \in { "AccessToken", "None" }
        /\ outcome.tried.kind = "raised" => outcome.result.kind = "None"

C3_Witness ==
    /\ vphase = "returned"
    /\ outcome.tried = Raised("PyJWKClientConnectionError")
    /\ outcome.result = NoAccessToken

\* whether a name matches a planet by the exact, alias or prefix rule; a name
\* that cleans to the empty string matches nothing
MatchesByRule(text, p) ==
    LET key   == Lower(Strip(text))
        clean == Clean(key)
    IN  /\ clean # ""
        /\ \/ clean = Clean(Lower(p))
           \/ key = Lower(p)
           \/ \E i \in DOMAIN PLANET_ALIASES :
                 PLANET_ALIASES[i].key = clean /\ PLANET_ALIASES[i].planet = p
           \/ StartsWith(Clean(Lower(p)), clean)

\* C4: a tool call whose planetName the resolver does not resolve gets an
\* error envelope (isError) that lists all 8 canonical names and has no
\* structured content; and a success envelope is centered only on a planet
\* the name matches by the exact, alias or prefix rule (an empty or blank
\* name resolves to the default planet): no silent default.
C4_NoSilentDefault ==
    phase = "done" =>
        /\ planet = None =>
              /\ reply.isError
              /\ \A i \in DOMAIN PLANETS : Contains(reply.text, PLANETS[i])
              /\ "structuredContent" \notin DOMAIN reply
        /\ ~reply.isError =>
              \/ Strip(name) = "" /\ reply.structuredContent.planet_name = DEFAULT_PLANET
              \/ MatchesByRule(name, reply.structuredContent.planet_name)

\* C5: a non-empty name made only of characters that are neither alphanumeric
\* nor whitespace resolves to nothing (Unresolved).
C5_PunctuationUnresolved ==
    ( /\ phase = "done"
      /\ name # ""
      /\ \A i \in 1..Len(name) : ~IsAlnum(At(name, i)) /\ ~IsSpace(At(name, i)) )
        => planet = None

\* C6: every canonical planet name, its upper-case form, and either of them
\* with non-alphanumeric characters inserted anywhere, resolves to that planet.
C6_CanonicalResolves ==
    phase = "done" =>
        \A i \in DOMAIN PLANETS :
            origin \in { PLANETS[i], Upper(PLANETS[i]) } => planet = PLANETS[i]

C6_Witness ==
    /\ phase = "done"
    /\ origin = "JUPITER"
    /\ inserted > 0
    /\ name # origin
    /\ planet = "Jupiter"

\* C7: every upper/lower-case variant of every alias resolves to the planet
\* of that alias, and the tool call with it succeeds centered on that planet.
C7_AliasResolves ==
    (phase = "done" /\ inserted = 0) =>
        \A i \in DOMAIN PLANET_ALIASES :
            origin \in CaseVariants(PLANET_ALIASES[i].key) =>
                /\ planet = PLANET_ALIASES[i].planet
                /\ ~reply.isError
                /\ reply.structuredContent.planet_name = PLANET_ALIASES[i].planet

C7_Witness ==
    /\ phase = "done"
    /\ name = "zEuS"
    /\ planet = "Jupiter"
    /\ ~reply.isError
    /\ reply.text = "Centered the solar system view on Jupiter."

C10_RefreshOncePerKid ==
    /\ \A k \in Kids : refreshes[k] <= 1
    /\ jwks \in { NoKeySet, RemoteKeys }

====
